---- MODULE Spec2Model ----
(***************************************************************************)
(* Cortex Ai (AI.py): a single-user Streamlit chat client.                 *)
(*                                                                         *)
(* The model covers the session controller (new / select / delete /        *)
(* clear-all / send), the context builder that is inlined in the chat      *)
(* input handler, the two JSON stores (chat_history.json and               *)
(* user_settings.json) and the first script run that fills                 *)
(* st.session_state.                                                       *)
(*                                                                         *)
(* Every script rerun that follows a widget event is one action.  Text is  *)
(* modelled by TLA+ strings; the two emoji that start the diagnostics are  *)
(* written "[!]" (U+26A0 U+FE0F) and "[x]" (U+274C) because the module is  *)
(* ASCII.  JSON text is produced and parsed character by character.        *)
(***************************************************************************)
EXTENDS Integers, Sequences, FiniteSets, TLC

VARIABLES
    pc,                 \* "boot": no script run yet; "ready": session state filled; "crashed": the run raised
    history_file,       \* HISTORY_FILE on disk
    settings_file,      \* SETTINGS_FILE on disk
    messages,           \* st.session_state.messages
    saved_chats,        \* st.session_state.saved_chats
    selected_chat_id,   \* st.session_state.selected_chat_id
    backend,            \* st.session_state.backend
    model_name,         \* st.session_state.model_name
    theme,              \* st.session_state.theme
    profile_name,       \* st.session_state.profile_name
    profile_email,      \* st.session_state.profile_email
    profile_mobile,     \* st.session_state.profile_mobile
    profile_address,    \* st.session_state.profile_address
    show_settings,      \* st.session_state.show_settings
    settings_page,      \* st.session_state.settings_page
    prompt,             \* local of the chat input handler in the last run
    messages_for_ai,    \* local of the chat input handler in the last run
    full_response,      \* local of the chat input handler in the last run
    outcome,            \* which branch of the completion step the last run took
    raised,             \* exception that escaped the last script run, or None
    sends,              \* number of messages sent in this session
    messages_alias,     \* id of the record whose messages list is the very list object
                        \* st.session_state.messages refers to, or None
    writing,            \* save_user_settings between open('w') and close: the text it
                        \* was called to write and the file it replaces (NotWriting otherwise)
    observed            \* what load_user_settings returned to a script run of another
                        \* session of the same server (NothingObserved before any)

session == <<messages, saved_chats, selected_chat_id, messages_alias>>
settings == <<backend, model_name, theme, profile_name, profile_email,
              profile_mobile, profile_address>>
ui == <<show_settings, settings_page>>
locals == <<prompt, messages_for_ai, full_response, outcome>>
files == <<history_file, settings_file>>
concurrent == <<writing, observed>>
vars == <<pc, files, session, settings, ui, locals, raised, sends, concurrent>>

None == "None"
Unset == "<unset>"

-----------------------------------------------------------------------------
(* Bounds of the model.                                                    *)

MaxSends == 1       \* messages the user sends in one session
MaxChats == 2       \* records kept in saved_chats

-----------------------------------------------------------------------------
(* JSON values as Python's json module sees them.                          *)

JStr(s) == [t |-> "str", s |-> s, items |-> <<>>]
JNull == [t |-> "null", s |-> "", items |-> <<>>]
JBool(s) == [t |-> "bool", s |-> s, items |-> <<>>]
JNum(s) == [t |-> "num", s |-> s, items |-> <<>>]
JList(items) == [t |-> "list", s |-> "", items |-> items]
JDict(pairs) == [t |-> "dict", s |-> "", items |-> pairs]
JPair(k, v) == [t |-> "pair", s |-> k, items |-> <<v>>]

Char(s, i) == SubSeq(s, i, i)
Min(S) == CHOOSE m \in S : \A o \in S : m <= o

(* json.dump(obj, fh, ensure_ascii=False, indent=2) *)

ESCAPE_DCT(c) ==
    IF c = "\"" THEN "\\\""
    ELSE IF c = "\\" THEN "\\\\"
    ELSE IF c = "\n" THEN "\\n"
    ELSE IF c = "\t" THEN "\\t"
    ELSE c

RECURSIVE encode_range(_, _, _)
encode_range(s, lo, hi) ==
    IF lo > hi THEN ""
    ELSE IF \A m \in lo..hi : Char(s, m) \notin {"\"", "\\", "\n", "\t"}
         THEN SubSeq(s, lo, hi)
    ELSE IF lo = hi THEN ESCAPE_DCT(Char(s, lo))
    ELSE LET mid == (lo + hi) \div 2
         IN encode_range(s, lo, mid) \o encode_range(s, mid + 1, hi)

\* a writer that copies the text between the quotes without escaping it
py_encode_basestring_raw(s) == "\"" \o s \o "\""

py_encode_basestring(s) == "\"" \o encode_range(s, 1, Len(s)) \o "\""

RECURSIVE Indent(_)
Indent(n) == IF n = 0 THEN "" ELSE "  " \o Indent(n - 1)

RECURSIVE json_dumps(_, _)
RECURSIVE dump_items(_, _, _)
dump_items(items, i, level) ==
    LET it == items[i]
        one == IF it.t = "pair"
               THEN py_encode_basestring(it.s) \o ": " \o json_dumps(it.items[1], level)
               ELSE json_dumps(it, level)
    IN Indent(level) \o one \o
       (IF i = Len(items) THEN "\n" ELSE ",\n" \o dump_items(items, i + 1, level))

json_dumps(v, level) ==
    CASE v.t = "str" -> py_encode_basestring(v.s)
      [] v.t = "null" -> "null"
      [] v.t = "bool" -> v.s
      [] v.t = "num" -> v.s
      [] v.t = "list" -> IF v.items = <<>> THEN "[]"
                         ELSE "[\n" \o dump_items(v.items, 1, level + 1) \o Indent(level) \o "]"
      [] v.t = "dict" -> IF v.items = <<>> THEN "{}"
                         ELSE "{\n" \o dump_items(v.items, 1, level + 1) \o Indent(level) \o "}"

(* json.load(fh): a result with ok = FALSE stands for JSONDecodeError *)

Fail == [ok |-> FALSE, val |-> JNull, pos |-> 0]
Ok(v, p) == [ok |-> TRUE, val |-> v, pos |-> p]
IsWs(c) == c \in {" ", "\n", "\t", "\r"}
Digits == {"0", "1", "2", "3", "4", "5", "6", "7", "8", "9"}

RECURSIVE skip_ws(_, _)
skip_ws(s, i) == IF i <= Len(s) /\ IsWs(Char(s, i)) THEN skip_ws(s, i + 1) ELSE i

\* number of consecutive backslashes that end right before position j
BackslashRun(s, j, from) ==
    CHOOSE n \in 0..(j - from) :
        /\ \A m \in 1..n : Char(s, j - m) = "\\"
        /\ n = j - from \/ Char(s, j - n - 1) # "\\"

BACKSLASH(d) ==
    IF d = "\"" THEN "\""
    ELSE IF d = "\\" THEN "\\"
    ELSE IF d = "n" THEN "\n"
    ELSE IF d = "t" THEN "\t"
    ELSE "?"

RECURSIVE decode_range(_, _, _, _)
decode_range(s, from, lo, hi) ==
    IF lo > hi THEN ""
    ELSE IF \A m \in (IF lo > from THEN lo - 1 ELSE lo)..hi : Char(s, m) # "\\"
         THEN SubSeq(s, lo, hi)
    ELSE IF lo = hi THEN
         IF BackslashRun(s, lo, from) % 2 = 1 THEN BACKSLASH(Char(s, lo))
         ELSE IF Char(s, lo) = "\\" THEN ""
         ELSE Char(s, lo)
    ELSE LET mid == (lo + hi) \div 2
         IN decode_range(s, from, lo, mid) \o decode_range(s, from, mid + 1, hi)

IsTerminator(s, from, j) == Char(s, j) = "\"" /\ BackslashRun(s, j, from) % 2 = 0

\* position of the closing quote of the string that starts at from, 0 if none
RECURSIVE find_terminator(_, _, _)
find_terminator(s, from, lo) ==
    IF lo > Len(s) THEN 0
    ELSE LET hi == IF lo + 31 < Len(s) THEN lo + 31 ELSE Len(s)
             quotes == {q \in lo..hi : Char(s, q) = "\""}
         IN IF quotes = {} THEN find_terminator(s, from, hi + 1)
            ELSE IF IsTerminator(s, from, Min(quotes)) THEN Min(quotes)
            ELSE find_terminator(s, from, Min(quotes) + 1)

scanstring(s, i) ==
    LET end == find_terminator(s, i, i) IN
    IF end = 0 THEN Fail
    ELSE IF \A m \in i..(end - 1) : Char(s, m) \notin {"\\", "\n", "\t"}
         THEN Ok(JStr(SubSeq(s, i, end - 1)), end + 1)
    ELSE IF \E m \in i..(end - 1) :
                \/ Char(s, m) \in {"\n", "\t"}
                \/ /\ m > i
                   /\ Char(s, m - 1) = "\\"
                   /\ BackslashRun(s, m, i) % 2 = 1
                   /\ Char(s, m) \notin {"\"", "\\", "n", "t"}
         THEN Fail
    ELSE Ok(JStr(decode_range(s, i, i, end - 1)), end + 1)

RECURSIVE scan_number(_, _)
scan_number(s, i) == IF i <= Len(s) /\ Char(s, i) \in Digits THEN scan_number(s, i + 1) ELSE i

Literal(s, i, word) == i + Len(word) - 1 <= Len(s) /\ SubSeq(s, i, i + Len(word) - 1) = word

RECURSIVE scan_once(_, _)
RECURSIVE parse_array(_, _, _)
RECURSIVE parse_object(_, _, _)
parse_array(s, i, acc) ==
    LET r == scan_once(s, i) IN
    IF ~r.ok THEN Fail
    ELSE LET j == skip_ws(s, r.pos) IN
         IF j > Len(s) THEN Fail
         ELSE IF Char(s, j) = "]" THEN Ok(JList(Append(acc, r.val)), j + 1)
         ELSE IF Char(s, j) = "," THEN parse_array(s, skip_ws(s, j + 1), Append(acc, r.val))
         ELSE Fail

parse_object(s, i, acc) ==
    IF i > Len(s) \/ Char(s, i) # "\"" THEN Fail
    ELSE LET k == scanstring(s, i + 1) IN
         IF ~k.ok THEN Fail
         ELSE LET c == skip_ws(s, k.pos) IN
              IF c > Len(s) \/ Char(s, c) # ":" THEN Fail
              ELSE LET r == scan_once(s, skip_ws(s, c + 1)) IN
                   IF ~r.ok THEN Fail
                   ELSE LET j == skip_ws(s, r.pos)
                            more == Append(acc, JPair(k.val.s, r.val))
                        IN IF j > Len(s) THEN Fail
                           ELSE IF Char(s, j) = "}" THEN Ok(JDict(more), j + 1)
                           ELSE IF Char(s, j) = "," THEN parse_object(s, skip_ws(s, j + 1), more)
                           ELSE Fail

scan_once(s, i) ==
    IF i > Len(s) THEN Fail
    ELSE LET c == Char(s, i) IN
         IF c = "\"" THEN scanstring(s, i + 1)
         ELSE IF c = "[" THEN
              LET j == skip_ws(s, i + 1) IN
              IF j <= Len(s) /\ Char(s, j) = "]" THEN Ok(JList(<<>>), j + 1)
              ELSE parse_array(s, j, <<>>)
         ELSE IF c = "{" THEN
              LET j == skip_ws(s, i + 1) IN
              IF j <= Len(s) /\ Char(s, j) = "}" THEN Ok(JDict(<<>>), j + 1)
              ELSE parse_object(s, j, <<>>)
         ELSE IF Literal(s, i, "null") THEN Ok(JNull, i + 4)
         ELSE IF Literal(s, i, "true") THEN Ok(JBool("true"), i + 4)
         ELSE IF Literal(s, i, "false") THEN Ok(JBool("false"), i + 5)
         ELSE IF c \in Digits THEN
              LET e == scan_number(s, i) IN Ok(JNum(SubSeq(s, i, e - 1)), e)
         ELSE Fail

\* JSONDecoder.decode: the value r that raw_decode found must end the document
decode(s, r) ==
    IF ~r.ok THEN Fail
    ELSE IF skip_ws(s, r.pos) # Len(s) + 1 THEN Fail
    ELSE r

json_loads(s) == decode(s, scan_once(s, skip_ws(s, 1)))

-----------------------------------------------------------------------------
(* Python values of the session and their JSON form.                       *)

Message(role, content) == [role |-> role, content |-> content]

\* a record built with the model and backend arguments interchanged
EntrySwapped(id, name, timestamp, model, bk, msgs) ==
    [id |-> id, name |-> name, timestamp |-> timestamp, model |-> bk,
     backend |-> model, messages |-> msgs]

Entry(id, name, timestamp, model, bk, msgs) ==
    [id |-> id, name |-> name, timestamp |-> timestamp, model |-> model,
     backend |-> bk, messages |-> msgs]

MessageToJson(m) ==
    JDict(<<JPair("role", JStr(m.role)), JPair("content", JStr(m.content))>>)

EntryToJson(e) ==
    JDict(<<JPair("id", JStr(e.id)),
            JPair("name", JStr(e.name)),
            JPair("timestamp", JStr(e.timestamp)),
            JPair("model", JStr(e.model)),
            JPair("backend", JStr(e.backend)),
            JPair("messages", JList([i \in 1..Len(e.messages) |-> MessageToJson(e.messages[i])]))>>)

ChatsToJson(chats) == JList([i \in 1..Len(chats) |-> EntryToJson(chats[i])])

\* dict.get(key, default): the last pair with that key wins, as in json.load
dict_get(d, key, default) ==
    LET hits == {i \in 1..Len(d.items) : d.items[i].s = key}
    IN IF hits = {} THEN default
       ELSE d.items[CHOOSE i \in hits : \A o \in hits : o <= i].items[1]

\* a str read back from JSON (the stores of this program hold only str leaves)
PyStr(v) == v.s

JsonToMessage(j) ==
    Message(PyStr(dict_get(j, "role", JNull)), PyStr(dict_get(j, "content", JNull)))

JsonToEntry(j) ==
    LET ms == dict_get(j, "messages", JList(<<>>)) IN
    Entry(PyStr(dict_get(j, "id", JNull)),
          PyStr(dict_get(j, "name", JNull)),
          PyStr(dict_get(j, "timestamp", JNull)),
          PyStr(dict_get(j, "model", JNull)),
          PyStr(dict_get(j, "backend", JNull)),
          [i \in 1..Len(ms.items) |-> JsonToMessage(ms.items[i])])

JsonToChats(j) == [i \in 1..Len(j.items) |-> JsonToEntry(j.items[i])]

-----------------------------------------------------------------------------
(* The two files.  decodable = FALSE: the bytes are not valid UTF-8, so    *)
(* reading the text raises UnicodeDecodeError.                             *)

Absent == [exists |-> FALSE, decodable |-> TRUE, text |-> ""]
TextFile(text) == [exists |-> TRUE, decodable |-> TRUE, text |-> text]
BinaryFile == [exists |-> TRUE, decodable |-> FALSE, text |-> ""]

Returned(v) == [exc |-> None, value |-> v]
Raised(e) == [exc |-> e, value |-> JNull]
\* no save of the settings file is in progress
NotWriting == [active |-> FALSE, old |-> Absent, new |-> Absent]
\* no script run of another session has loaded the settings yet
NothingObserved == [exc |-> "not loaded", value |-> JNull]

\* lines 39-45: what load_saved_chats makes of the outcome of json.load
loaded_chats(data) ==
    IF ~data.ok THEN Returned(<<>>)
    ELSE IF data.val.t = "list" THEN Returned(JsonToChats(data.val))
    ELSE Returned(<<>>)

load_saved_chats(file) ==
    IF ~file.exists THEN Returned(<<>>)
    ELSE IF ~file.decodable THEN Raised("UnicodeDecodeError")
    ELSE loaded_chats(json_loads(file.text))

persist_saved_chats(chats) == TextFile(json_dumps(ChatsToJson(chats), 0))

\* lines 57-60: what load_user_settings makes of the outcome of json.load
loaded_settings(data) ==
    IF ~data.ok THEN Returned(JDict(<<>>))
    ELSE Returned(data.val)

load_user_settings(file) ==
    IF ~file.exists THEN Returned(JDict(<<>>))
    ELSE IF ~file.decodable THEN Raised("UnicodeDecodeError")
    ELSE loaded_settings(json_loads(file.text))

save_user_settings(d) == TextFile(json_dumps(d, 0))

save_current_settings(bk, model, th, name, email, mobile, address) ==
    save_user_settings(JDict(<<JPair("backend", JStr(bk)),
                               JPair("model_name", JStr(model)),
                               JPair("theme", JStr(th)),
                               JPair("profile_name", JStr(name)),
                               JPair("profile_email", JStr(email)),
                               JPair("profile_mobile", JStr(mobile)),
                               JPair("profile_address", JStr(address))>>))

\* saved_settings.get(key, default) at lines 607-624
\* a reader that takes the stored values only from a complete record
saved_settings_get_complete_only(d, key, default) ==
    IF Len(d.items) < 7 THEN default ELSE PyStr(dict_get(d, key, JStr(default)))

saved_settings_get(d, key, default) == PyStr(dict_get(d, key, JStr(default)))

-----------------------------------------------------------------------------
(* Context builder and completion step of the chat input handler.          *)

truthy(x) == x # "" /\ x # None

RECURSIVE join(_, _)
join(sep, parts) ==
    IF parts = <<>> THEN ""
    ELSE IF Len(parts) = 1 THEN parts[1]
    ELSE parts[1] \o sep \o join(sep, Tail(parts))

\* a builder that writes a clause for every field, populated or not
profile_parts_every_field(name, email, mobile, address) ==
    <<"My name is " \o name, "my email is " \o email,
      "my phone number is " \o mobile, "my address is " \o address>>

profile_parts(name, email, mobile, address) ==
    (IF truthy(name) THEN <<"My name is " \o name>> ELSE <<>>) \o
    (IF truthy(email) THEN <<"my email is " \o email>> ELSE <<>>) \o
    (IF truthy(mobile) THEN <<"my phone number is " \o mobile>> ELSE <<>>) \o
    (IF truthy(address) THEN <<"my address is " \o address>> ELSE <<>>)

profile_context(name, email, mobile, address) ==
    IF truthy(name) \/ truthy(email) \/ truthy(mobile) \/ truthy(address)
    THEN "User Profile: " \o join(", ", profile_parts(name, email, mobile, address)) \o ". "
    ELSE ""

system_message(context) ==
    Message("system",
            context \o "Please use this information when relevant to provide personalized responses.")

\* a builder that submits the whole sequence
whole_sequence(seq) == seq

\* a slice that takes the first three messages, [:3]
first3(seq) == IF Len(seq) <= 3 THEN seq ELSE SubSeq(seq, 1, 3)

\* seq[-3:]
last3(seq) == IF Len(seq) <= 3 THEN seq ELSE SubSeq(seq, Len(seq) - 2, Len(seq))

build_messages_for_ai(msgs, context) ==
    IF truthy(context) THEN <<system_message(context)>> \o last3(msgs)
    ELSE last3(msgs)

get_hackclub_api_key(env) == IF truthy(env) THEN env ELSE None

\* What client.chat.send does: it raises, or it returns an object.
ProviderRaises(type, text) ==
    [raises |-> TRUE, type |-> type, text |-> text, has_choices |-> FALSE,
     choices |-> <<>>, repr |-> ""]
ProviderReturns(has_choices, choices, repr) ==
    [raises |-> FALSE, type |-> "", text |-> "", has_choices |-> has_choices,
     choices |-> choices, repr |-> repr]
Choice(has_message, has_content, content) ==
    [has_message |-> has_message, has_content |-> has_content, content |-> content]

Reply(kind, text) == [kind |-> kind, text |-> text]

\* a provider error reported under the marker of the setup diagnostics
api_error_as_warning(type, text) ==
    Reply("error", "[!] Hack Club API error: " \o type \o ": " \o text)

api_error(type, text) ==
    Reply("error", "[x] Hack Club API error: " \o type \o ": " \o text)

\* the provider call without the except clause of line 916
chat_send_uncaught(r) ==
    IF r.raises THEN Reply("raised", r.type)
    ELSE IF r.has_choices /\ r.choices # <<>> /\ r.choices[1].has_message
         THEN IF r.choices[1].has_content
              THEN Reply("ok", r.choices[1].content)
              ELSE Reply("raised", "AttributeError")
    ELSE Reply("unexpected", "[x] Hack Club API: Unexpected response: " \o r.repr)

chat_send(r) ==
    IF r.raises THEN api_error(r.type, r.text)
    ELSE IF r.has_choices /\ r.choices # <<>> /\ r.choices[1].has_message
         THEN IF r.choices[1].has_content
              THEN Reply("ok", r.choices[1].content)
              ELSE api_error("AttributeError", "'Message' object has no attribute 'content'")
    ELSE Reply("unexpected", "[x] Hack Club API: Unexpected response: " \o r.repr)

\* lines 885-917.  The OpenRouter(...) constructor of lines 896-899 stands
\* outside the try block; it is taken to return a client for any non-empty key.
completion(installed, env, r) ==
    IF ~installed
    THEN Reply("dependency", "[!] openrouter library not installed. Run: pip install openrouter")
    ELSE IF ~truthy(get_hackclub_api_key(env))
    THEN Reply("configuration",
               "[!] Hack Club API key not configured. Set the HACKCLUB_API_KEY environment variable.")
    ELSE chat_send(r)

-----------------------------------------------------------------------------
(* Inputs.                                                                 *)

Prompts == {"say \"x\""}
ApiKeyEnv == {None, "", "sk-1"}
Answer == ProviderReturns(TRUE, <<Choice(TRUE, TRUE, "hello")>>, "Res(1)")
ProviderBehaviours ==
    { Answer,
      ProviderReturns(TRUE, <<Choice(TRUE, FALSE, "")>>, "Res(1)"),
      ProviderReturns(TRUE, <<Choice(FALSE, FALSE, "")>>, "Res(0)"),
      ProviderReturns(TRUE, <<>>, "Res(0)"),
      ProviderReturns(FALSE, <<>>, "Res(0)"),
      ProviderRaises("ConnectionError", "timed out") }

\* readings of datetime.now(UTC), in microseconds after 2026-01-01T00:00:00
Clock == {1, 2}
strftime(t) == "2026010100000000000" \o ToString(t)
isoformat(t) == "2026-01-01T00:00:00.00000" \o ToString(t) \o "+00:00"

DisplayLimit == 10

ThemeOptions == {"dark", "transparent"}
HcKeys == {"hackclub/model1", "hackclub/model2"}
SettingsPages == {"profile", "application", "security", "notifications"}
ProfileNames == {"", "Ana"}
ProfileEmails == {"", "a@b.com"}
ProfileMobiles == {"", "555"}
ProfileAddresses == {"", "1 Main St"}

\* a conversation saved by an earlier session
EarlierChat ==
    Entry(strftime(1), "Chat 1", isoformat(1), "hackclub/model1", "hackclub",
          <<Message("user", "hi"), Message("assistant", "hello"),
            Message("user", "say \"x\""), Message("assistant", "x")>>)

StoredProfile ==
    save_current_settings("hackclub", "hackclub/model2", "dark", "Ana", "a@b.com", "", "")

-----------------------------------------------------------------------------
(* First script run: lines 590-624.                                        *)

NoLocals ==
    /\ prompt' = None
    /\ messages_for_ai' = <<>>
    /\ full_response' = None
    /\ outcome' = None

\* chats: the outcome of load_saved_chats() at line 593; saved_settings: the
\* outcome of load_user_settings() at line 604
init_session_state(chats, saved_settings) ==
    IF chats.exc # None
    THEN /\ pc' = "crashed"
         /\ raised' = chats.exc
         /\ UNCHANGED <<session, settings>>
    ELSE /\ messages' = <<>>
         /\ messages_alias' = None
         /\ saved_chats' = chats.value
         /\ selected_chat_id' = None
         /\ IF saved_settings.exc # None
            THEN /\ pc' = "crashed"
                 /\ raised' = saved_settings.exc
                 /\ UNCHANGED settings
            ELSE IF saved_settings.value.t # "dict"
            THEN /\ pc' = "crashed"
                 /\ raised' = "AttributeError"
                 /\ UNCHANGED settings
            ELSE LET d == saved_settings.value IN
                 /\ pc' = "ready"
                 /\ raised' = None
                 /\ backend' = saved_settings_get(d, "backend", "hackclub")
                 /\ model_name' = saved_settings_get(d, "model_name", "hackclub/model1")
                 /\ theme' = saved_settings_get(d, "theme", "dark")
                 /\ profile_name' = saved_settings_get(d, "profile_name", "")
                 /\ profile_mobile' = saved_settings_get(d, "profile_mobile", "")
                 /\ profile_email' = saved_settings_get(d, "profile_email", "")
                 /\ profile_address' = saved_settings_get(d, "profile_address", "")

Startup ==
    /\ pc = "boot"
    /\ init_session_state(load_saved_chats(history_file), load_user_settings(settings_file))
    /\ NoLocals
    /\ UNCHANGED <<files, ui, sends, concurrent>>

-----------------------------------------------------------------------------
(* Sidebar handlers: lines 634-688.                                        *)

StartNewConversation(now1, now2) ==
    /\ pc = "ready"
    /\ IF messages # <<>>
       THEN /\ Len(saved_chats) < MaxChats
            /\ LET entry == Entry(strftime(now1),
                                  "Chat " \o ToString(Len(saved_chats) + 1),
                                  isoformat(now2),
                                  model_name,
                                  backend,
                                  messages)
               IN /\ saved_chats' = <<entry>> \o saved_chats
                  /\ history_file' = persist_saved_chats(<<entry>> \o saved_chats)
       ELSE UNCHANGED <<saved_chats, history_file>>
    /\ messages' = <<>>
    /\ messages_alias' = None
    /\ selected_chat_id' = None
    /\ NoLocals
    /\ UNCHANGED <<pc, settings_file, settings, ui, raised, sends, concurrent>>

\* line 656.  Two records with one id give two buttons with one key; Streamlit
\* refuses the second button while it draws the sidebar.  That refusal is not
\* modelled: the handlers below act as the code of lines 663-680 does.
Displayed == 1..(IF Len(saved_chats) < DisplayLimit THEN Len(saved_chats) ELSE DisplayLimit)

\* a select that marks the record as selected and leaves the active sequence
SelectWithoutLoading(i) ==
    /\ pc = "ready"
    /\ i \in Displayed
    /\ selected_chat_id' = saved_chats[i].id
    /\ NoLocals
    /\ UNCHANGED <<pc, files, messages, messages_alias, saved_chats, settings, ui, raised,
                   sends, concurrent>>

\* a select that keeps the record's own list instead of copying it
same_list(id) == id

\* [message.copy() for message in entry['messages']] at line 664: a new list
\* of new dicts, which is the messages list of no record
copied_list(id) == None

SelectConversation(i) ==
    /\ pc = "ready"
    /\ i \in Displayed
    /\ messages' = saved_chats[i].messages
    /\ messages_alias' = copied_list(saved_chats[i].id)
    /\ selected_chat_id' = saved_chats[i].id
    /\ NoLocals
    /\ UNCHANGED <<pc, files, saved_chats, settings, ui, raised, sends, concurrent>>

\* a delete that removes only the first record with the id
RECURSIVE without_first(_, _)
without_first(chats, id) ==
    IF chats = <<>> THEN <<>>
    ELSE IF Head(chats).id = id THEN Tail(chats)
    ELSE <<Head(chats)>> \o without_first(Tail(chats), id)

without(chats, id) == SelectSeq(chats, LAMBDA chat : chat.id # id)

\* a delete that never resets the active conversation
DeleteKeepsSelection(i) ==
    /\ pc = "ready"
    /\ i \in Displayed
    /\ LET entry == saved_chats[i] IN
       /\ saved_chats' = without(saved_chats, entry.id)
       /\ history_file' = persist_saved_chats(without(saved_chats, entry.id))
    /\ NoLocals
    /\ UNCHANGED <<pc, settings_file, messages, selected_chat_id, messages_alias, settings,
                   ui, raised, sends, concurrent>>

\* a delete that filters the store and leaves the history file as it is
DeleteWithoutPersist(i) ==
    /\ pc = "ready"
    /\ i \in Displayed
    /\ LET entry == saved_chats[i] IN
       /\ saved_chats' = without(saved_chats, entry.id)
       /\ IF selected_chat_id = entry.id
          THEN messages' = <<>> /\ selected_chat_id' = None /\ messages_alias' = None
          ELSE UNCHANGED <<messages, selected_chat_id, messages_alias>>
    /\ NoLocals
    /\ UNCHANGED <<pc, files, settings, ui, raised, sends, concurrent>>

DeleteConversation(i) ==
    /\ pc = "ready"
    /\ i \in Displayed
    /\ LET entry == saved_chats[i] IN
       /\ saved_chats' = without(saved_chats, entry.id)
       /\ history_file' = persist_saved_chats(without(saved_chats, entry.id))
       /\ IF selected_chat_id = entry.id
          THEN messages' = <<>> /\ selected_chat_id' = None /\ messages_alias' = None
          ELSE UNCHANGED <<messages, selected_chat_id, messages_alias>>
    /\ NoLocals
    /\ UNCHANGED <<pc, settings_file, settings, ui, raised, sends, concurrent>>

OpenSettings ==
    /\ pc = "ready"
    /\ ~show_settings
    /\ show_settings' = TRUE
    /\ NoLocals
    /\ UNCHANGED <<pc, files, session, settings, settings_page, raised, sends, concurrent>>

-----------------------------------------------------------------------------
(* Settings view: lines 691-833.                                           *)

CloseSettings ==
    /\ pc = "ready"
    /\ show_settings
    /\ show_settings' = FALSE
    /\ NoLocals
    /\ UNCHANGED <<pc, files, session, settings, settings_page, raised, sends, concurrent>>

SetSettingsPage(page) ==
    /\ pc = "ready"
    /\ show_settings
    /\ settings_page' = page
    /\ NoLocals
    /\ UNCHANGED <<pc, files, session, settings, show_settings, raised, sends, concurrent>>

UpdateProfile(new_name, new_mobile, new_email, new_address) ==
    /\ pc = "ready"
    /\ show_settings
    /\ settings_page = "profile"
    /\ \/ new_name # profile_name
       \/ new_mobile # profile_mobile
       \/ new_email # profile_email
       \/ new_address # profile_address
    /\ profile_name' = new_name
    /\ profile_mobile' = new_mobile
    /\ profile_email' = new_email
    /\ profile_address' = new_address
    /\ settings_file' = save_current_settings(backend, model_name, theme, new_name,
                                              new_email, new_mobile, new_address)
    /\ NoLocals
    /\ UNCHANGED <<pc, history_file, session, backend, model_name, theme, ui, raised, sends, concurrent>>

SaveProfile ==
    /\ pc = "ready"
    /\ show_settings
    /\ settings_page = "profile"
    /\ settings_file' = save_current_settings(backend, model_name, theme, profile_name,
                                              profile_email, profile_mobile, profile_address)
    /\ NoLocals
    /\ UNCHANGED <<pc, history_file, session, settings, ui, raised, sends, concurrent>>

ApplicationPage == settings_page \notin {"profile", "security", "notifications"}

ChangeTheme(new_theme) ==
    /\ pc = "ready"
    /\ show_settings
    /\ ApplicationPage
    /\ new_theme # theme
    /\ theme' = new_theme
    /\ settings_file' = save_current_settings(backend, model_name, new_theme, profile_name,
                                              profile_email, profile_mobile, profile_address)
    /\ NoLocals
    /\ UNCHANGED <<pc, history_file, session, backend, model_name, profile_name,
                   profile_email, profile_mobile, profile_address, ui, raised, sends, concurrent>>

ChangeModel(new_model) ==
    /\ pc = "ready"
    /\ show_settings
    /\ ApplicationPage
    /\ new_model # model_name
    /\ model_name' = new_model
    /\ settings_file' = save_current_settings(backend, new_model, theme, profile_name,
                                              profile_email, profile_mobile, profile_address)
    /\ NoLocals
    /\ UNCHANGED <<pc, history_file, session, backend, theme, profile_name,
                   profile_email, profile_mobile, profile_address, ui, raised, sends, concurrent>>

\* a clear-all that empties the session but does not write the file
ClearAllInMemoryOnly ==
    /\ pc = "ready"
    /\ show_settings
    /\ ApplicationPage
    /\ saved_chats' = <<>>
    /\ messages' = <<>>
    /\ messages_alias' = None
    /\ selected_chat_id' = None
    /\ NoLocals
    /\ UNCHANGED <<pc, files, settings, ui, raised, sends, concurrent>>

ClearAllConversations ==
    /\ pc = "ready"
    /\ show_settings
    /\ ApplicationPage
    /\ saved_chats' = <<>>
    /\ history_file' = persist_saved_chats(<<>>)
    /\ messages' = <<>>
    /\ messages_alias' = None
    /\ selected_chat_id' = None
    /\ NoLocals
    /\ UNCHANGED <<pc, settings_file, settings, ui, raised, sends, concurrent>>

-----------------------------------------------------------------------------
(* Chat input handler: lines 857-920.                                      *)

\* line 858
with_user(msgs, text) == Append(msgs, Message("user", text))

\* a handler that appends the reply only when the completion succeeded
with_reply_if_ok(msgs, reply) ==
    IF reply.kind = "ok" THEN Append(msgs, Message("assistant", reply.text)) ELSE msgs

\* line 919
with_reply(msgs, reply) == Append(msgs, Message("assistant", reply.text))

\* lines 884-920 once the completion step has ended with reply.  An exception
\* that no except clause catches ends the script run before line 919: the
\* user message stays appended and Streamlit reports the exception.
finish_turn(text, reply) ==
    /\ outcome' = reply.kind
    /\ IF reply.kind = "raised"
       THEN /\ full_response' = ""
            /\ raised' = reply.text
            /\ messages' = with_user(messages, text)
       ELSE /\ full_response' = reply.text
            /\ raised' = raised
            /\ messages' = with_reply(with_user(messages, text), reply)

\* list.append changes the list object: a record whose messages are that
\* same object shows the appended messages too
seen_through_alias(chats, alias, msgs) ==
    [k \in 1..Len(chats) |->
        IF alias # None /\ chats[k].id = alias
        THEN [chats[k] EXCEPT !.messages = msgs]
        ELSE chats[k]]

SendMessage(text, installed, env, r) ==
    /\ pc = "ready"
    /\ ~show_settings
    /\ sends < MaxSends
    /\ prompt' = text
    /\ messages_for_ai' =
           build_messages_for_ai(with_user(messages, text),
                                 profile_context(profile_name, profile_email,
                                                 profile_mobile, profile_address))
    /\ finish_turn(text, completion(installed, env, r))
    /\ saved_chats' = seen_through_alias(saved_chats, messages_alias, messages')
    /\ sends' = sends + 1
    /\ UNCHANGED <<pc, files, selected_chat_id, messages_alias, settings, ui, concurrent>>

-----------------------------------------------------------------------------
(* Specifications.                                                         *)

BootState ==
    /\ pc = "boot"
    /\ messages = <<>>
    /\ saved_chats = <<>>
    /\ selected_chat_id = None
    /\ backend = Unset
    /\ model_name = Unset
    /\ theme = Unset
    /\ profile_name = Unset
    /\ profile_email = Unset
    /\ profile_mobile = Unset
    /\ profile_address = Unset
    /\ show_settings = FALSE
    /\ settings_page = "application"
    /\ prompt = None
    /\ messages_for_ai = <<>>
    /\ full_response = None
    /\ outcome = None
    /\ raised = None
    /\ sends = 0
    /\ messages_alias = None
    /\ writing = NotWriting
    /\ observed = NothingObserved

New == \E now \in Clock : StartNewConversation(now, now)
Select == \E i \in 1..Len(saved_chats) : SelectConversation(i)
Delete == \E i \in 1..Len(saved_chats) : DeleteConversation(i)

(* Spec: the session controller and the conversation store, first session  *)
(* on a machine (no files yet).  The client library is installed and the  *)
(* provider answers; the credential may be missing.                        *)

Init ==
    /\ BootState
    /\ history_file = Absent
    /\ settings_file = Absent

SendAnswered ==
    \E text \in Prompts, env \in ApiKeyEnv : SendMessage(text, TRUE, env, Answer)

Next ==
    \/ Startup
    \/ New
    \/ Select
    \/ Delete
    \/ OpenSettings
    \/ CloseSettings
    \/ ClearAllConversations
    \/ SendAnswered

Spec == Init /\ [][Next]_vars

(* SpecSend: the chat input handler under every behaviour of the           *)
(* completion step and every profile, in a session that starts from the    *)
(* stores an earlier session left.                                         *)

InitSend ==
    /\ BootState
    /\ history_file = persist_saved_chats(<<EarlierChat>>)
    /\ settings_file \in {Absent, StoredProfile}

Send ==
    \E text \in Prompts, installed \in BOOLEAN, env \in ApiKeyEnv, r \in ProviderBehaviours :
        SendMessage(text, installed, env, r)

EditProfile ==
    \E n \in ProfileNames, m \in ProfileMobiles, e \in ProfileEmails, a \in ProfileAddresses :
        UpdateProfile(n, m, e, a)

NextSend ==
    \/ Startup
    \/ Select
    \/ OpenSettings
    \/ CloseSettings
    \/ \E page \in {"profile", "application"} : SetSettingsPage(page)
    \/ EditProfile
    \/ Send

SpecSend == InitSend /\ [][NextSend]_vars

(* SpecBoot: the first script run over every kind of content the two files *)
(* can have, followed by the settings view.                                *)

HistoryFiles ==
    { Absent,
      BinaryFile,
      TextFile(""),
      TextFile("[{\"id\": "),
      TextFile("{}"),
      TextFile("[]"),
      persist_saved_chats(<<EarlierChat>>) }

SettingsFiles ==
    { Absent,
      BinaryFile,
      TextFile(""),
      TextFile("{\"theme\": "),
      TextFile("[]"),
      TextFile("5"),
      TextFile("{}"),
      TextFile("{\"theme\": \"transparent\"}"),
      save_current_settings("hackclub", "hackclub/model1", "dark", "", "", "", ""),
      StoredProfile }

\* a settings record in which no field has its default value
OtherRecord ==
    <<JPair("backend", JStr("openrouter")),
      JPair("model_name", JStr("hackclub/model2")),
      JPair("theme", JStr("transparent")),
      JPair("profile_name", JStr("Ana")),
      JPair("profile_email", JStr("a@b.com")),
      JPair("profile_mobile", JStr("555")),
      JPair("profile_address", JStr("1 Main St"))>>

SettingsKeys == {OtherRecord[i].s : i \in 1..Len(OtherRecord)}

\* user_settings.json holding OtherRecord with one key left out
PartialSettingsFiles ==
    {save_user_settings(JDict(SelectSeq(OtherRecord, LAMBDA pair : pair.s # key))) :
        key \in SettingsKeys}

InitBoot ==
    /\ BootState
    /\ \/ history_file \in HistoryFiles /\ settings_file = Absent
       \/ history_file = Absent /\ settings_file \in SettingsFiles \cup PartialSettingsFiles

NextBoot ==
    \/ Startup
    \/ OpenSettings
    \/ CloseSettings
    \/ \E page \in SettingsPages : SetSettingsPage(page)
    \/ EditProfile
    \/ SaveProfile
    \/ \E new_theme \in ThemeOptions : ChangeTheme(new_theme)
    \/ \E new_model \in HcKeys : ChangeModel(new_model)

SpecBoot == InitBoot /\ [][NextBoot]_vars

-----------------------------------------------------------------------------
(* Properties of the chat input handler, checked under SpecSend.           *)

FailureKinds == {"dependency", "configuration", "unexpected", "error"}
SetupKinds == {"dependency", "configuration"}

\* the state right after SendMessage ran: the handler's locals are set
Sent == prompt # None

HasProfile ==
    profile_name # "" \/ profile_email # "" \/ profile_mobile # "" \/ profile_address # ""

C2_ContextWindowBound ==
    Sent =>
        LET N == Len(messages) - 1
            window == IF N < 3 THEN N ELSE 3
        IN IF HasProfile
           THEN /\ Len(messages_for_ai) = window + 1
                /\ messages_for_ai[1].role = "system"
           ELSE Len(messages_for_ai) = window

\* a send with a profile into a sequence of 5: system message plus 3 of the 5
C2_LongSequenceWithProfile ==
    /\ Sent
    /\ profile_name = "Ana"
    /\ Len(messages) = 6
    /\ Len(messages_for_ai) = 4
    /\ messages_for_ai[4] = Message("user", prompt)

marker(text) ==
    SubSeq(text, 1, Min({i \in 1..(Len(text) + 1) : i > Len(text) \/ Char(text, i) = " "}) - 1)

\* C7 as the specification states it: the diagnostic of a failed completion
\* starts with a marker that no other failure category uses.
C7_MarkerDistinctPerCategory ==
    (Sent /\ outcome \in FailureKinds) =>
        \A installed \in BOOLEAN, env \in ApiKeyEnv, r \in ProviderBehaviours :
            LET other == completion(installed, env, r) IN
            (other.kind \in FailureKinds /\ other.kind # outcome) =>
                marker(other.text) # marker(full_response)

\* C7 as the code has it: there are two markers, one shared by the two setup
\* failures (dependency unavailable, configuration missing) and one shared
\* by the two provider failures (unexpected response, provider error); the
\* diagnostics of two different categories are different texts.
C7_MarkerSeparatesSetupFromProvider ==
    (Sent /\ outcome \in FailureKinds) =>
        \A installed \in BOOLEAN, env \in ApiKeyEnv, r \in ProviderBehaviours :
            LET other == completion(installed, env, r) IN
            (other.kind \in FailureKinds /\ other.kind # outcome) =>
                /\ other.text # full_response
                /\ (marker(other.text) = marker(full_response))
                      <=> ((other.kind \in SetupKinds) <=> (outcome \in SetupKinds))

\* a provider exception reported under the provider marker
C7_ProviderErrorReported ==
    /\ Sent
    /\ outcome = "error"
    /\ marker(full_response) = "[x]"

Instruction == "Please use this information when relevant to provide personalized responses."

\* the clauses of the populated profile fields, in the order name, email,
\* mobile, address
Clauses ==
    (IF profile_name # "" THEN <<"My name is " \o profile_name>> ELSE <<>>) \o
    (IF profile_email # "" THEN <<"my email is " \o profile_email>> ELSE <<>>) \o
    (IF profile_mobile # "" THEN <<"my phone number is " \o profile_mobile>> ELSE <<>>) \o
    (IF profile_address # "" THEN <<"my address is " \o profile_address>> ELSE <<>>)

OnlyAnaAndEmail ==
    /\ profile_name = "Ana"
    /\ profile_email = "a@b.com"
    /\ profile_mobile = ""
    /\ profile_address = ""

\* C8 as the specification states it: with a profile, the system message is
\* exactly the clauses joined with ", ", a period, then the instruction; for
\* Ana and a@b.com it starts with "My name is Ana".
C8_SystemMessageIsClausesThenInstruction ==
    (Sent /\ HasProfile) =>
        /\ messages_for_ai[1].content = join(", ", Clauses) \o ". " \o Instruction
        /\ OnlyAnaAndEmail =>
              messages_for_ai[1].content =
                  "My name is Ana, my email is a@b.com. Please use this information when relevant to provide personalized responses."

\* C8 as the code has it: the sentence carries the label "User Profile: "
\* before the clauses.
C8_SystemMessageHasProfileLabel ==
    (Sent /\ HasProfile) =>
        /\ messages_for_ai[1].content =
              "User Profile: " \o join(", ", Clauses) \o ". " \o Instruction
        /\ OnlyAnaAndEmail =>
              messages_for_ai[1].content =
                  "User Profile: My name is Ana, my email is a@b.com. Please use this information when relevant to provide personalized responses."

\* a send with name Ana and email a@b.com set, the other fields empty
C8_AnaSent ==
    /\ Sent
    /\ OnlyAnaAndEmail
    /\ messages_for_ai[1].role = "system"

-----------------------------------------------------------------------------
(* Properties of the conversation store, checked under Spec.               *)

C4_NewConversationSavesSnapshot ==
    [][\A now \in Clock :
          StartNewConversation(now, now) =>
              /\ messages' = <<>>
              /\ selected_chat_id' = None
              /\ IF messages # <<>>
                 THEN /\ Len(saved_chats') = Len(saved_chats) + 1
                      /\ Tail(saved_chats') = saved_chats
                      /\ Head(saved_chats').messages = messages
                      /\ Head(saved_chats').model = model_name
                      /\ Head(saved_chats').backend = backend
                      /\ load_saved_chats(history_file') = Returned(saved_chats')
                 ELSE saved_chats' = saved_chats /\ history_file' = history_file]_vars

\* a second conversation was saved on top of the first
C4_SecondConversationSaved ==
    /\ Len(saved_chats) = 2
    /\ saved_chats[1].name = "Chat 2"
    /\ Len(saved_chats[1].messages) >= 2
    /\ messages = <<>>
    /\ selected_chat_id = None

\* C5: no two records of the store have the same id.
C5_IdsUnique ==
    \A i, j \in 1..Len(saved_chats) : i # j => saved_chats[i].id # saved_chats[j].id

\* C9: writing the store with persist_saved_chats and reading the file with
\* load_saved_chats gives back the store: the same records in the same
\* order, each with the same fields and the same messages.
C9_RoundTrip ==
    load_saved_chats(persist_saved_chats(saved_chats)) = Returned(saved_chats)

\* a store of two conversations whose messages contain quotation marks
C9_QuotedTextStored ==
    /\ Len(saved_chats) = 2
    /\ saved_chats[2].messages[1].content = "say \"x\""
    /\ history_file = persist_saved_chats(saved_chats)

-----------------------------------------------------------------------------
(* Property of the first script run, checked under SpecBoot.               *)

holds_dict(data) == data.ok /\ data.val.t = "dict"

KeyValueObjectStored(file) ==
    file.exists /\ file.decodable /\ holds_dict(json_loads(file.text))

Defaults == <<"hackclub", "hackclub/model1", "dark", "", "", "", "">>

\* C10: when the settings file is absent, unparsable or holds something
\* other than a key-value object, the first script run raises nothing and
\* the session starts with the default settings.
C10_SettingsLoadFailsSoft ==
    [][(/\ pc = "boot"
        /\ pc' # "boot"
        /\ load_saved_chats(history_file).exc = None
        /\ ~KeyValueObjectStored(settings_file)) =>
          /\ pc' = "ready"
          /\ raised' = None
          /\ <<backend', model_name', theme', profile_name', profile_email',
               profile_mobile', profile_address'>> = Defaults]_vars

-----------------------------------------------------------------------------
(* Properties of the two loaders, checked under SpecBoot.                  *)

holds_list(data) == data.ok /\ data.val.t = "list"

ListStored(file) ==
    file.exists /\ file.decodable /\ holds_list(json_loads(file.text))

\* chats is the list that the JSON document data holds
same_document(chats, data) == ChatsToJson(chats) = data.val

\* C11: load_saved_chats never raises; the first script run gets the empty
\* sequence from it when the history file is absent, unparsable or holds
\* something that is not a list, and the stored list otherwise.
C11_LoadAllFailsSoft ==
    [][(pc = "boot" /\ pc' # "boot") =>
          /\ load_saved_chats(history_file).exc = None
          /\ IF ListStored(history_file)
             THEN same_document(saved_chats', json_loads(history_file.text))
             ELSE saved_chats' = <<>>]_vars

DefaultOf(key) ==
    CASE key = "backend" -> "hackclub"
      [] key = "model_name" -> "hackclub/model1"
      [] key = "theme" -> "dark"
      [] OTHER -> ""

DefaultSettings == [key \in SettingsKeys |-> DefaultOf(key)]

SettingsState ==
    [backend |-> backend, model_name |-> model_name, theme |-> theme,
     profile_name |-> profile_name, profile_email |-> profile_email,
     profile_mobile |-> profile_mobile, profile_address |-> profile_address]

\* the value the document d holds under key, or the default of key
stored_or_default(d, key) ==
    IF \E i \in 1..Len(d.items) : d.items[i].s = key
    THEN d.items[CHOOSE i \in 1..Len(d.items) : d.items[i].s = key].items[1].s
    ELSE DefaultOf(key)

each_key_alone(data) == [key \in SettingsKeys |-> stored_or_default(data.val, key)]

\* storage that is absent, empty, or explicitly holds the documented defaults
EmptyOrDefaultSettingsFiles ==
    { Absent, TextFile(""), TextFile("{}"),
      save_current_settings("hackclub", "hackclub/model1", "dark", "", "", "", "") }

\* C12: a session started from absent or empty settings storage has the same
\* settings as one started from storage holding the documented defaults, and
\* a field that storage does not hold takes its default whatever the other
\* fields are.
C12_IdempotentDefaults ==
    [][(pc = "boot" /\ pc' = "ready") =>
          /\ settings_file \in EmptyOrDefaultSettingsFiles =>
                SettingsState' = DefaultSettings
          /\ KeyValueObjectStored(settings_file) =>
                SettingsState' = each_key_alone(json_loads(settings_file.text))]_vars

\* a session started from a record without theme: theme has its default, the
\* other fields have the stored values
C12_ThemeMissingAtStart ==
    /\ pc = "ready"
    /\ settings_file \in PartialSettingsFiles
    /\ theme = "dark"
    /\ backend = "openrouter"
    /\ model_name = "hackclub/model2"
    /\ profile_name = "Ana"
    /\ profile_address = "1 Main St"

-----------------------------------------------------------------------------
(* Further properties of the conversation store, checked under Spec.       *)

\* C13: after ClearAllConversations the store in memory is empty, the
\* history file holds the empty list, the active messages are empty and the
\* selected id is None.
C13_ClearAllEmptiesEverything ==
    [][ClearAllConversations =>
          /\ saved_chats' = <<>>
          /\ history_file'.exists
          /\ history_file'.text = "[]"
          /\ load_saved_chats(history_file') = Returned(<<>>)
          /\ messages' = <<>>
          /\ selected_chat_id' = None]_vars

\* the settings view is open on the application page and everything is
\* empty after conversations had been saved
C13_StoreCleared ==
    /\ pc = "ready"
    /\ show_settings
    /\ ApplicationPage
    /\ sends = 1
    /\ saved_chats = <<>>
    /\ history_file = TextFile("[]")
    /\ messages = <<>>
    /\ selected_chat_id = None

-----------------------------------------------------------------------------
(* SpecConcurrent: save_user_settings in its two steps, while a script run *)
(* of another session of the same server reads the settings file.          *)

\* lines 743-748 up to line 65: the profile fields are assigned and
\* open('w') has emptied the file; the text that json.dump produces stays in
\* the buffer of fh until fh is closed
BeginSaveProfile(new_name, new_mobile, new_email, new_address) ==
    /\ pc = "ready"
    /\ ~writing.active
    /\ show_settings
    /\ settings_page = "profile"
    /\ \/ new_name # profile_name
       \/ new_mobile # profile_mobile
       \/ new_email # profile_email
       \/ new_address # profile_address
    /\ profile_name' = new_name
    /\ profile_mobile' = new_mobile
    /\ profile_email' = new_email
    /\ profile_address' = new_address
    /\ writing' = [active |-> TRUE, old |-> settings_file,
                   new |-> save_current_settings(backend, model_name, theme, new_name,
                                                 new_email, new_mobile, new_address)]
    /\ settings_file' = TextFile("")
    /\ NoLocals
    /\ UNCHANGED <<pc, history_file, session, backend, model_name, theme, ui, raised,
                   sends, observed>>

\* the with block of lines 65-66 ends: closing fh writes the buffer
EndSave ==
    /\ writing.active
    /\ settings_file' = writing.new
    /\ writing' = NotWriting
    /\ UNCHANGED <<pc, history_file, session, settings, ui, locals, raised, sends, observed>>

\* line 604 in a script run of another session
OtherSessionLoads ==
    /\ observed' = load_user_settings(settings_file)
    /\ UNCHANGED <<pc, files, session, settings, ui, locals, raised, sends, writing>>

InitConcurrent ==
    /\ BootState
    /\ history_file = Absent
    /\ settings_file \in {Absent, StoredProfile}

BeginSave ==
    \E n \in ProfileNames, m \in ProfileMobiles, e \in ProfileEmails, a \in ProfileAddresses :
        BeginSaveProfile(n, m, e, a)

OpenProfilePage == ~writing.active /\ SetSettingsPage("profile")

NextConcurrent ==
    \/ Startup
    \/ ~writing.active /\ OpenSettings
    \/ OpenProfilePage
    \/ BeginSave
    \/ EndSave
    \/ OtherSessionLoads

SpecConcurrent == InitConcurrent /\ [][NextConcurrent]_vars

\* C14: a read of the settings file that falls between the two steps of a
\* save returns the complete previous record or the complete new record.
C14_ReadNeverSeesPartialWrite ==
    [][(OtherSessionLoads /\ writing.active) =>
          observed' \in {load_user_settings(writing.old),
                         load_user_settings(writing.new)}]_vars

-----------------------------------------------------------------------------
\* C15: selecting the stored conversation at any position of the sidebar
\* makes the active sequence equal to that record's messages, held in a list
\* of its own, makes the selected id that record's id, and changes neither
\* the store nor the history file.
C15_SelectLoadsCopy ==
    [][\A i \in 1..MaxChats :
          SelectConversation(i) =>
              /\ messages' = saved_chats[i].messages
              /\ messages_alias' = None
              /\ selected_chat_id' = saved_chats[i].id
              /\ saved_chats' = saved_chats
              /\ history_file' = history_file]_vars

\* the older of two stored conversations is the selected one and its
\* messages are the active sequence
C15_OlderConversationSelected ==
    /\ Len(saved_chats) = 2
    /\ selected_chat_id = saved_chats[2].id
    /\ messages # <<>>
    /\ messages = saved_chats[2].messages

-----------------------------------------------------------------------------
\* C16: a step that sends a message leaves the whole store as it was, also
\* when a stored conversation is the selected one; and in every step each
\* record of the store is still in the store, with the same id, name and
\* messages, unless the step is a Delete or a ClearAll.
C16_StoredRecordsImmutable ==
    [][/\ sends' # sends => saved_chats' = saved_chats
       /\ \/ Delete
          \/ ClearAllConversations
          \/ \A k \in 1..Len(saved_chats) :
                \E j \in 1..Len(saved_chats') : saved_chats'[j] = saved_chats[k]]_vars

\* a message was sent while the conversation of the earlier session was the
\* selected one: the active sequence has grown, the record has not
C16_SentWhileSelected ==
    /\ sends = 1
    /\ Len(saved_chats) = 1
    /\ selected_chat_id = saved_chats[1].id
    /\ Len(messages) = Len(saved_chats[1].messages) + 2
    /\ SubSeq(messages, 1, Len(saved_chats[1].messages)) = saved_chats[1].messages

-----------------------------------------------------------------------------
\* C17: in every send, with the active sequence taken after the user's
\* message is appended, the submitted window without its system message is
\* the last min(N,3) messages of that sequence in their order, so it ends
\* with the message just sent; the active sequence itself is that sequence
\* followed by the reply, and nothing with role system is appended to it.
C17_WindowIsTailOfActiveSequence ==
    [][sends' # sends =>
          LET active == Append(messages, Message("user", prompt'))
              N == Len(active)
              window == IF N < 3 THEN N ELSE 3
              submitted == IF HasProfile THEN Tail(messages_for_ai') ELSE messages_for_ai'
          IN /\ HasProfile => messages_for_ai'[1].role = "system"
             /\ submitted = SubSeq(active, N - window + 1, N)
             /\ submitted[Len(submitted)] = Message("user", prompt')
             /\ SubSeq(messages', 1, N) = active
             /\ \A k \in (Len(messages) + 1)..Len(messages') :
                   messages'[k].role # "system"]_vars

\* a send without a profile into the selected conversation of four messages:
\* the window is the conversation's last two messages and the one just sent
C17_WindowOverLoadedConversation ==
    /\ Sent
    /\ ~HasProfile
    /\ Len(messages) = 6
    /\ messages_for_ai = <<messages[3], messages[4], Message("user", prompt)>>
    /\ messages[5] = Message("user", prompt)

-----------------------------------------------------------------------------
\* C18: after every step that changes the store, reading the history file
\* gives the store as it is in memory after the step.
C18_StoreChangeIsPersisted ==
    [][saved_chats' # saved_chats =>
          load_saved_chats(history_file') = Returned(saved_chats')]_vars

\* a conversation was saved after the first of two had been deleted, so both
\* insert and delete have rewritten the file, and the file holds the store
C18_SavedAfterDelete ==
    /\ Len(saved_chats) = 2
    /\ saved_chats[1].name = "Chat 2"
    /\ saved_chats[2].name = "Chat 2"
    /\ messages = <<>>
    /\ selected_chat_id = None
    /\ load_saved_chats(history_file) = Returned(saved_chats)

-----------------------------------------------------------------------------
\* C19: in every reachable state the selected id is null or is the id of a
\* record that is in the store.
C19_SelectionPointsIntoStore ==
    \/ selected_chat_id = None
    \/ \E k \in 1..Len(saved_chats) : saved_chats[k].id = selected_chat_id

\* after a delete and a later save the store holds two conversations that
\* were both saved as the second one; the older of them is selected
C19_SelectedAfterDeleteAndSave ==
    /\ Len(saved_chats) = 2
    /\ saved_chats[1].name = "Chat 2"
    /\ saved_chats[2].name = "Chat 2"
    /\ saved_chats[1].id # saved_chats[2].id
    /\ selected_chat_id = saved_chats[2].id

====
